---- MODULE Spec2Model ----
(***************************************************************************)
(* A model of the example scripts of prompt-vault: each script is a linear *)
(* run of main() through argument checking, client creation, input         *)
(* acquisition and a fixed list of model stages (free text, structured     *)
(* JSON, streamed text), every failure ending the process with sys.exit.   *)
(*                                                                         *)
(* Texts are sequences of tokens.  A response text uses the tokens         *)
(*   "F"  the three-backtick fence marker                                  *)
(*   "J"  the word json (a language tag when it directly follows "F")      *)
(*   "W"  one whitespace character                                         *)
(*   "P"  one character of prose that is not JSON                          *)
(*   "D.."  one complete JSON document (see JsonValue)                     *)
(*   "Dt1", "Dt2"  the two parts of a document around a fence marker that  *)
(*         one of its string values holds (see Serialise)                  *)
(* Backticks occur only in groups of three, so str.split and the `in`      *)
(* test on the marker are sub-sequence searches on tokens.                 *)
(***************************************************************************)
EXTENDS Integers, Sequences, FiniteSets, TLC

\* ------------------------------------------------------------------ bounds
\* Longest response text enumerated by ExtractSpec.
MaxLen == 6
\* Most fragments a streamed response delivers.
MaxFrags == 2
\* Longest prose before and after the fenced record RoundTripSpec enumerates.
MaxProse == 2

\* ------------------------------------------------------------------- texts
FENCE == <<"F">>
FENCE_JSON == <<"F", "J">>

\* The JSON documents a model response (or an input file) may hold.
DocTok == {"Dfull", "DnoA", "DnoB", "DnumA", "DenumA", "Dlist", "Dstr"}

RECURSIVE SeqsUpTo(_, _)
SeqsUpTo(S, n) ==
  IF n = 0 THEN {<<>>}
  ELSE LET shorter == SeqsUpTo(S, n - 1)
       IN  shorter \cup {Append(s, t) : s \in {x \in shorter : Len(x) = n - 1}, t \in S}

\* sep occurs in s at index i.
OccursAt(s, sep, i) ==
  /\ i >= 1
  /\ i + Len(sep) - 1 <= Len(s)
  /\ \A k \in 1..Len(sep) : s[i + k - 1] = sep[k]

\* str.find: index of the leftmost occurrence of sep in s, 0 when there is none.
Find(s, sep) ==
  LET I == {i \in 1..Len(s) : OccursAt(s, sep, i)}
  IN  IF I = {} THEN 0 ELSE CHOOSE i \in I : \A j \in I : i <= j

\* Python's `sep in s`.
Contains(s, sep) == Find(s, sep) # 0

\* str.split(sep): the pieces between the non-overlapping occurrences of sep,
\* found left to right; <<s>> when sep does not occur.
RECURSIVE Split(_, _)
Split(s, sep) ==
  LET i == Find(s, sep)
  IN  IF i = 0 THEN <<s>>
      ELSE <<SubSeq(s, 1, i - 1)>> \o Split(SubSeq(s, i + Len(sep), Len(s)), sep)

\* str.strip(): leading and trailing whitespace removed.
RECURSIVE LStrip(_)
LStrip(s) == IF s # <<>> /\ Head(s) = "W" THEN LStrip(Tail(s)) ELSE s

RECURSIVE RStrip(_)
RStrip(s) ==
  IF s # <<>> /\ s[Len(s)] = "W" THEN RStrip(SubSeq(s, 1, Len(s) - 1)) ELSE s

Strip(s) == RStrip(LStrip(s))

\* ---------------------------------------------------------- the extraction
\* ExtractJson without the .strip() calls.
ExtractJsonNoStrip(text) ==
  IF Contains(text, FENCE_JSON)
  THEN Split(Split(text, FENCE_JSON)[2], FENCE)[1]
  ELSE IF Contains(text, FENCE)
       THEN Split(Split(text, FENCE)[2], FENCE)[1]
       ELSE text

\* ExtractJson without the branch for the json tag: the first fence opens.
ExtractJsonFirstFence(text) ==
  IF Contains(text, FENCE)
  THEN Strip(Split(Split(text, FENCE)[2], FENCE)[1])
  ELSE text

\* ExtractJson cutting only at a marker that has a closing marker after it: a
\* response whose opening marker is never closed is stripped as a whole.
ExtractJsonClosedOnly(text) ==
  IF Contains(text, FENCE_JSON) /\ Len(Split(Split(text, FENCE_JSON)[2], FENCE)) > 1
  THEN Strip(Split(Split(text, FENCE_JSON)[2], FENCE)[1])
  ELSE IF Contains(text, FENCE) /\ Len(Split(text, FENCE)) > 2
       THEN Strip(Split(Split(text, FENCE)[2], FENCE)[1])
       ELSE Strip(text)

\* ExtractJson without the second split: the text after the opening marker
\* is not cut at the next marker.
ExtractJsonNoClose(text) ==
  IF Contains(text, FENCE_JSON)
  THEN Strip(Split(text, FENCE_JSON)[2])
  ELSE IF Contains(text, FENCE)
       THEN Strip(Split(text, FENCE)[2])
       ELSE text

\* The fence handling every structured stage applies to the response text
\* before json.loads: the text after the first "```json" (else after the first
\* "```") up to the next "```", stripped; the response itself without a fence.
ExtractJson(text) ==
  IF Contains(text, FENCE_JSON)
  THEN Strip(Split(Split(text, FENCE_JSON)[2], FENCE)[1])
  ELSE IF Contains(text, FENCE)
       THEN Strip(Split(Split(text, FENCE)[2], FENCE)[1])
       ELSE text

\* -------------------------------------------------------------------- JSON
Str(v) == [type |-> "string", val |-> v]
Num(v) == [type |-> "number", val |-> v]

Scripts ==
  {"code_reviewer", "support_classifier", "competitor_analyzer",
   "content_pipeline", "dev_code_review", "feature_prioritization",
   "onboarding_email"}

MultiStep ==
  {"code_reviewer", "support_classifier", "competitor_analyzer", "content_pipeline"}

\* The two fields of the structured record (or of the input file) that the
\* script reads first, and the other fields it reads.
FieldA(s) ==
  CASE s = "code_reviewer" -> "risk_level"
    [] s = "support_classifier" -> "category"
    [] s = "competitor_analyzer" -> "company_name"
    [] s = "feature_prioritization" -> "features"
    [] OTHER -> "name"

FieldB(s) ==
  CASE s = "code_reviewer" -> "complexity"
    [] s = "support_classifier" -> "priority"
    [] s = "competitor_analyzer" -> "tagline"
    [] s = "feature_prioritization" -> "context"
    [] OTHER -> "plan"

OtherFields(s) ==
  IF s = "support_classifier" THEN {"sentiment", "customer_request"} ELSE {}

GoodA(s) ==
  CASE s = "code_reviewer" -> "low"
    [] s = "support_classifier" -> "bug"
    [] OTHER -> "acme"

GoodB(s) ==
  CASE s = "code_reviewer" -> "low"
    [] s = "support_classifier" -> "high"
    [] OTHER -> "free"

Obj(f) == [kind |-> "object", fields |-> f]
NonObj(k) == [kind |-> k, fields |-> <<>>]

FullFields(s) ==
  [n \in {FieldA(s), FieldB(s)} \cup OtherFields(s) |->
     IF n = FieldA(s) THEN Str(GoodA(s))
     ELSE IF n = FieldB(s) THEN Str(GoodB(s)) ELSE Str("neutral")]

Without(f, n) == [k \in DOMAIN f \ {n} |-> f[k]]

\* A free-text field of the record the prompt asks for.
FieldText(s) ==
  CASE s = "code_reviewer" -> "summary"
    [] s = "support_classifier" -> "subcategory"
    [] OTHER -> "positioning"

\* The full record with a free-text field whose value holds a fence marker.
TickFields(s) ==
  [n \in DOMAIN FullFields(s) \cup {FieldText(s)} |->
     IF n = FieldText(s) THEN Str("three backticks") ELSE FullFields(s)[n]]

\* json.dumps of the value of a document: one token, except that a fence
\* marker inside a string value stands in the text as it is.
Serialise(d) == IF d = "Dtick" THEN <<"Dt1", "F", "Dt2">> ELSE <<d>>

\* The JSON value a document token stands for, in the vocabulary of script s.
JsonValue(s, d) ==
  CASE d = "Dfull" -> Obj(FullFields(s))
    [] d = "DnoA" -> Obj(Without(FullFields(s), FieldA(s)))
    [] d = "DnoB" -> Obj(Without(FullFields(s), FieldB(s)))
    [] d = "DnumA" -> Obj([FullFields(s) EXCEPT ![FieldA(s)] = Num("7")])
    [] d = "DenumA" -> Obj([FullFields(s) EXCEPT ![FieldA(s)] = Str("extreme")])
    [] d = "Dlist" -> NonObj("list")
    [] d = "Dtick" -> Obj(TickFields(s))
    [] OTHER -> NonObj("string")

NoJson == NonObj("none")

\* json.loads: surrounding whitespace is skipped; the text must then be exactly
\* one JSON document, anything else raises JSONDecodeError.
JsonLoads(s, text) ==
  LET t == Strip(text)
  IN  IF Len(t) = 1 /\ t[1] \in DocTok
      THEN [ok |-> TRUE, value |-> JsonValue(s, t[1])]
      ELSE IF t = Serialise("Dtick")
           THEN [ok |-> TRUE, value |-> JsonValue(s, "Dtick")]
           ELSE [ok |-> FALSE, value |-> NoJson]

\* value[key]: KeyError on an object without the key, TypeError on a list or a
\* string.
Subscript(v, key) ==
  IF v.kind = "object"
  THEN IF key \in DOMAIN v.fields
       THEN [ok |-> TRUE, exc |-> "", value |-> v.fields[key]]
       ELSE [ok |-> FALSE, exc |-> "KeyError", value |-> Str("")]
  ELSE [ok |-> FALSE, exc |-> "TypeError", value |-> Str("")]

\* value.get(key, default): AttributeError when value is not an object.
DictGet(v, key, default) ==
  IF v.kind = "object"
  THEN [ok |-> TRUE, exc |-> "",
        value |-> IF key \in DOMAIN v.fields THEN v.fields[key] ELSE Str(default)]
  ELSE [ok |-> FALSE, exc |-> "AttributeError", value |-> Str("")]

\* The value printed as it is, without .upper().
UpperOfSame(w) == w

\* str.upper() on the field values that occur.
UpperOf(w) ==
  CASE w = "low" -> "LOW"
    [] w = "bug" -> "BUG"
    [] w = "high" -> "HIGH"
    [] w = "extreme" -> "EXTREME"
    [] w = "acme" -> "ACME"
    [] w = "free" -> "FREE"
    [] w = "neutral" -> "NEUTRAL"
    [] OTHER -> w

\* fieldvalue.upper(): AttributeError on a number.
Upper(fv) ==
  IF fv.type = "string"
  THEN [ok |-> TRUE, exc |-> "", value |-> UpperOf(fv.val)]
  ELSE [ok |-> FALSE, exc |-> "AttributeError", value |-> ""]

\* ------------------------------------------------------------------ stages
St(n, k, g) == [name |-> n, kind |-> k, guarded |-> g]

\* The model stages of each script in the order main calls them; guarded: the
\* remote call sits in a try whose handler prints ERROR and calls sys.exit(1).
Stages(s) ==
  CASE s = "code_reviewer" ->
         <<St("analyze_diff", "structured", TRUE), St("review_bugs", "free", TRUE),
           St("review_security", "free", TRUE), St("review_performance", "free", TRUE),
           St("generate_summary", "free", TRUE)>>
    [] s = "support_classifier" ->
         <<St("classify_email", "structured", TRUE), St("draft_response", "streamed", TRUE),
           St("suggest_actions", "free", TRUE)>>
    [] s = "competitor_analyzer" ->
         <<St("extract_key_info", "structured", TRUE), St("compare_products", "streamed", TRUE),
           St("generate_swot", "streamed", TRUE),
           St("generate_positioning_strategy", "free", TRUE)>>
    [] s = "content_pipeline" ->
         <<St("generate_outline", "free", TRUE), St("write_draft", "streamed", TRUE),
           St("optimize_seo", "free", TRUE), St("generate_social_posts", "free", TRUE)>>
    [] s = "dev_code_review" -> <<St("review_code", "free", FALSE)>>
    [] s = "feature_prioritization" -> <<St("prioritize_features", "free", FALSE)>>
    [] OTHER -> <<St("generate_onboarding_email", "free", FALSE)>>

NStages(s) == Len(Stages(s))
StageNames(s) == {Stages(s)[i].name : i \in 1..NStages(s)}

\* Where the raw input comes from.
Sources(s) ==
  CASE s \in {"code_reviewer", "support_classifier"} -> {"file", "-"}
    [] s = "competitor_analyzer" -> {"url"}
    [] s = "content_pipeline" -> {"argv"}
    [] s = "dev_code_review" -> {"git"}
    [] OTHER -> {"jsonfile"}

\* Raw input texts: empty, whitespace only, and with content.
Inputs == {<<>>, <<"W">>, <<"P">>, <<"W", "P">>}
\* fetch_webpage returning an empty text after a failed request.
FetchFailedTextEmpty == <<>>

\* What fetch_webpage returns after a failed request.
FetchFailedText == <<"E">>
\* The documents an input JSON file may hold.
InputDocs == {"Dfull", "DnoA", "Dlist"}

\* Response texts of a structured stage: a document bare, padded, in a tagged
\* fence inside prose, in a plain fence, after an unclosed tagged fence, in a
\* tagged fence after a plain fenced block; and prose only, and nothing.
Shapes(d) ==
  {<<d>>, <<"W", d, "W">>, <<"P", "F", "J", "W", d, "W", "F", "P">>, <<"F", d, "F">>,
   <<"F", "J", d>>, <<"F", "P", "F", "F", "J", d, "F">>}

Responses == UNION {Shapes(d) : d \in DocTok} \cup {<<"P">>, <<>>}

\* Texts of a free-text response, and the fragments of a streamed one.
FreeTexts == {<<"a">>, <<"b">>}
Fragments == {<<"a">>, <<"b">>}

\* Stage results: none yet, a text, or a parsed JSON value.
NoResult == [kind |-> "none", text |-> <<>>, json |-> NoJson]
TextResult(t) == [kind |-> "text", text |-> t, json |-> NoJson]
DictResult(t) == [kind |-> "dict", text |-> t, json |-> NoJson]
JsonResult(v) == [kind |-> "json", text |-> <<>>, json |-> v]

\* A line on stdout or stderr.
Ev(e, a) == [ev |-> e, arg |-> a, text |-> <<>>]
EvText(e, t) == [ev |-> e, arg |-> "", text |-> t]

\* ------------------------------------------------------------------- state
VARIABLES
  script,     \* which script runs
  source,     \* its input source
  argvOk,     \* the required command-line arguments are given
  apiKey,     \* ANTHROPIC_API_KEY is set
  pc,         \* position in main: args, client, acquire, stage, final, done
  si,         \* index of the current stage (0 before the first)
  sp,         \* position in the stage: begin, call, parse, stream, none
  input,      \* the raw input text
  acquired,   \* what acquisition met: no, ok, empty, notfound, exception, fetch_error
  resp,       \* raw response text of the structured stage
  parseText,  \* the text handed to json.loads
  buffer,     \* text accumulated by the streamed stage
  nfrags,     \* fragments received by the streamed stage
  results,    \* stage name -> value returned to main
  started,    \* names of the stages begun, in order
  calls,      \* stage name -> remote calls issued
  raised,     \* names of the stages whose remote call raised
  out,        \* stdout, in order
  err,        \* stderr, in order
  exitCode    \* -1 while running, then the process exit code

vars ==
  <<script, source, argvOk, apiKey, pc, si, sp, input, acquired, resp, parseText,
    buffer, nfrags, results, started, calls, raised, out, err, exitCode>>

Running == exitCode = -1

Init ==
  /\ script \in Scripts
  /\ source \in Sources(script)
  /\ argvOk \in BOOLEAN
  /\ apiKey \in BOOLEAN
  /\ pc = "args"
  /\ si = 0
  /\ sp = "none"
  /\ input = <<>>
  /\ acquired = "no"
  /\ resp = <<>>
  /\ parseText = <<>>
  /\ buffer = <<>>
  /\ nfrags = 0
  /\ results = [n \in StageNames(script) |-> NoResult]
  /\ started = <<>>
  /\ calls = [n \in StageNames(script) |-> 0]
  /\ raised = {}
  /\ out = <<>>
  /\ err = <<>>
  /\ exitCode = -1

\* A handler that reports and returns instead of exiting.
ExitSkipped(code) ==
  /\ pc' = pc
  /\ sp' = sp
  /\ exitCode' = exitCode

\* sys.exit(code), or the interpreter ending on an uncaught exception (code 1).
Exit(code) ==
  /\ pc' = "done"
  /\ sp' = "none"
  /\ exitCode' = code

\* main calling the stage it has just run once more instead of stage i.
GoToStageAgain(i) ==
  IF i <= NStages(script)
  THEN /\ pc' = "stage"
       /\ si' = IF i > 1 THEN i - 1 ELSE i
       /\ sp' = "begin"
  ELSE /\ pc' = "final"
       /\ si' = si
       /\ sp' = "none"

\* main goes on to stage i, or past the last stage to its closing lines.
GoToStage(i) ==
  IF i <= NStages(script)
  THEN /\ pc' = "stage"
       /\ si' = i
       /\ sp' = "begin"
  ELSE /\ pc' = "final"
       /\ si' = si
       /\ sp' = "none"

Stage == Stages(script)[si]

\* ------------------------------------------------------ main before stages
\* A text without a character that is not whitespace.
Blank(t) == \A i \in 1..Len(t) : t[i] = "W"

\* What the environment delivered: content, or nothing but whitespace.
Delivered(t) == IF Blank(t) THEN "empty" ELSE "ok"

\* The emptiness test without the .strip().
IsEmptyContentNoStrip(t) == t = <<>>

\* The scripts' test `not content.strip()`.
IsEmptyContent(t) == Strip(t) = <<>>

\* main's argument check: the multi-step scripts test len(sys.argv), print the
\* usage on stdout and exit 1; the single-step scripts use argparse, which
\* writes its error to stderr and exits 2. With arguments, the title is printed
\* (content_pipeline's topic is argv[1] as given, unchecked).
ParseArgs ==
  /\ Running
  /\ pc = "args"
  /\ IF script \in MultiStep
     THEN IF ~argvOk
          THEN /\ out' = Append(out, Ev("usage", script))
               /\ Exit(1)
               /\ UNCHANGED <<err, input, acquired>>
          ELSE /\ out' = Append(out, Ev("title", script))
               /\ pc' = "client"
               /\ IF script = "content_pipeline"
                  THEN \E t \in Inputs : input' = t /\ acquired' = Delivered(t)
                  ELSE UNCHANGED <<input, acquired>>
               /\ UNCHANGED <<err, sp, exitCode>>
     ELSE IF ~argvOk
          THEN /\ err' = Append(err, Ev("argparse error", script))
               /\ Exit(2)
               /\ UNCHANGED <<out, input, acquired>>
          ELSE /\ out' = IF script = "dev_code_review"
                         THEN Append(out, Ev("title", script)) ELSE out
               /\ pc' = "acquire"
               /\ UNCHANGED <<err, sp, exitCode, input, acquired>>
  /\ UNCHANGED <<raised, script, source, argvOk, apiKey, si, resp, parseText, buffer, nfrags,
                 results, started, calls>>

\* create_client: without ANTHROPIC_API_KEY two lines on stderr and sys.exit(1).
CreateClient ==
  /\ Running
  /\ pc = "client"
  /\ IF ~apiKey
     THEN /\ err' = err \o <<Ev("ERROR: ANTHROPIC_API_KEY environment variable not set", ""),
                             Ev("Set it with", "")>>
          /\ Exit(1)
          /\ UNCHANGED si
     ELSE /\ err' = err
          /\ exitCode' = exitCode
          /\ IF script = "content_pipeline"
             THEN GoToStage(1)
             ELSE pc' = "acquire" /\ UNCHANGED <<si, sp>>
  /\ UNCHANGED <<raised, script, source, argvOk, apiKey, input, acquired, resp, parseText,
                 buffer, nfrags, results, started, calls, out>>

\* read_diff / read_email: the file or stdin is read; a missing file, any other
\* exception, and content that strips to nothing each print an ERROR and
\* sys.exit(1); otherwise the content is returned as read.
ReadInput ==
  /\ Running
  /\ pc = "acquire"
  /\ script \in {"code_reviewer", "support_classifier"}
  /\ \E o \in {"notfound", "exception", "read"} :
       \E t \in Inputs :
         /\ o = "notfound" => source = "file"
         /\ o # "read" => t = <<>>
         /\ IF o = "notfound"
            THEN /\ err' = Append(err, Ev("ERROR: File not found", source))
                 /\ acquired' = "notfound"
                 /\ Exit(1)
                 /\ UNCHANGED <<input, si, out>>
            ELSE IF o = "exception"
            THEN /\ err' = Append(err, Ev("ERROR reading", "exception text"))
                 /\ acquired' = "exception"
                 /\ Exit(1)
                 /\ UNCHANGED <<input, si, out>>
            ELSE IF IsEmptyContent(t)
            THEN /\ err' = Append(err, Ev("ERROR: content is empty", ""))
                 /\ acquired' = Delivered(t)
                 /\ Exit(1)
                 /\ UNCHANGED <<input, si, out>>
            ELSE /\ input' = t
                 /\ acquired' = Delivered(t)
                 /\ out' = Append(out, Ev("input shown", script))
                 /\ GoToStage(1)
                 /\ UNCHANGED <<err, exitCode>>
  /\ UNCHANGED <<raised, script, source, argvOk, apiKey, resp, parseText, buffer, nfrags,
                 results, started, calls>>

\* The page text fetch_webpage keeps: each line stripped, blank lines dropped
\* (the cut at 10000 characters lies beyond the texts enumerated here).
CleanText(t) == Strip(t)

\* fetch_webpage: a failed request is reported on stderr and answered with a
\* text that names the URL and the error; a fetched page is returned cleaned,
\* whatever is left of it.
FetchWebpage ==
  /\ Running
  /\ pc = "acquire"
  /\ script = "competitor_analyzer"
  /\ \E o \in {"request_exception", "fetched"} :
       \E t \in Inputs :
         /\ o # "fetched" => t = <<>>
         /\ IF o = "request_exception"
            THEN /\ err' = err \o <<Ev("ERROR fetching webpage", "exception text"),
                                    Ev("Continuing with limited analysis...", "")>>
                 /\ out' = out \o <<Ev("header", "fetch_webpage"), Ev("URL", source)>>
                 /\ input' = FetchFailedText
                 /\ acquired' = "fetch_error"
            ELSE /\ err' = err
                 /\ out' = out \o <<Ev("header", "fetch_webpage"), Ev("URL", source),
                                    Ev("fetched", "")>>
                 /\ input' = CleanText(t)
                 /\ acquired' = Delivered(t)
  /\ GoToStage(1)
  /\ UNCHANGED <<raised, script, source, argvOk, apiKey, resp, parseText, buffer, nfrags,
                 results, started, calls, exitCode>>

\* dev-code-review-automation's main: the diff is git's stdout; a diff that
\* strips to nothing prints "No changes to review." and exit(0).
GitDiff ==
  /\ Running
  /\ pc = "acquire"
  /\ script = "dev_code_review"
  /\ \E t \in Inputs :
       /\ input' = t
       /\ acquired' = Delivered(t)
       /\ IF IsEmptyContent(t)
          THEN /\ out' = Append(out, Ev("No changes to review.", ""))
               /\ Exit(0)
               /\ UNCHANGED si
          ELSE /\ out' = out
               /\ GoToStage(1)
               /\ UNCHANGED exitCode
  /\ UNCHANGED <<raised, script, source, argvOk, apiKey, resp, parseText, buffer, nfrags,
                 results, started, calls, err>>

\* The single-step scripts' open() and json.load(): a missing file or invalid
\* JSON is an uncaught exception (traceback, exit code 1).
LoadJson ==
  /\ Running
  /\ pc = "acquire"
  /\ script \in {"feature_prioritization", "onboarding_email"}
  /\ \E o \in {"FileNotFoundError", "JSONDecodeError", "loaded"} :
       \E d \in InputDocs :
         /\ o # "loaded" => d = "Dfull"
         /\ IF o # "loaded"
            THEN /\ err' = Append(err, Ev("Traceback", o))
                 /\ acquired' = "exception"
                 /\ Exit(1)
                 /\ UNCHANGED <<input, si, out>>
            ELSE /\ input' = <<d>>
                 /\ acquired' = "ok"
                 /\ out' = IF script = "feature_prioritization"
                           THEN Append(out, Ev("title", script)) ELSE out
                 /\ GoToStage(1)
                 /\ UNCHANGED <<err, exitCode>>
  /\ UNCHANGED <<raised, script, source, argvOk, apiKey, resp, parseText, buffer, nfrags,
                 results, started, calls>>

\* ------------------------------------------------------------------ stages
RECURSIVE FirstExc(_, _)
\* The exception of the first failing v[key] for the keys in order, "" if none.
FirstExc(v, keys) ==
  IF keys = <<>> THEN ""
  ELSE IF ~Subscript(v, Head(keys)).ok THEN Subscript(v, Head(keys)).exc
       ELSE FirstExc(v, Tail(keys))

\* The exception raised while stage n builds its prompt, "" if none: the
\* f-strings of draft_response index the classification, those of the
\* single-step scripts index the loaded input; json.dumps and slices never fail.
PromptExc(n) ==
  CASE n = "draft_response" ->
         FirstExc(results["classify_email"].json,
                  <<"category", "priority", "sentiment", "customer_request">>)
    [] n \in {"prioritize_features", "generate_onboarding_email"} ->
         FirstExc(JsonValue(script, input[1]), <<FieldA(script)>>)
    [] OTHER -> ""

\* A stage function is entered: the multi-step scripts print the step header,
\* the single-step scripts construct the client (which, given no key, raises
\* either here or at the call, depending on the SDK); then the prompt is built
\* outside any try, so an exception there is a traceback and exit code 1.
StageBegin ==
  /\ Running
  /\ pc = "stage"
  /\ sp = "begin"
  /\ started' = Append(started, Stage.name)
  /\ out' = IF script \in MultiStep THEN Append(out, Ev("header", Stage.name)) ELSE out
  /\ \E clientRaises \in BOOLEAN :
       /\ clientRaises => script \notin MultiStep /\ ~apiKey
       /\ IF clientRaises
          THEN /\ err' = Append(err, Ev("Traceback", "AnthropicError"))
               /\ Exit(1)
          ELSE IF PromptExc(Stage.name) # ""
          THEN /\ err' = Append(err, Ev("Traceback", PromptExc(Stage.name)))
               /\ Exit(1)
          ELSE /\ err' = err
               /\ sp' = "call"
               /\ UNCHANGED <<pc, exitCode>>
  /\ UNCHANGED <<raised, script, source, argvOk, apiKey, si, input, acquired, resp, parseText,
                 buffer, nfrags, results, calls>>

\* The value bound under n and, with it, under every name bound before.
RecordShared(res, n, v) ==
  [m \in DOMAIN res |-> IF m = n \/ res[m].kind # "none" THEN v ELSE res[m]]

\* main binds the value a stage returned to that stage's variable.
Record(res, n, v) == [res EXCEPT ![n] = v]

\* What a failed remote call leaves on stderr: the handler's ERROR line in a
\* guarded stage, the interpreter's traceback otherwise.
CallFailure(st) ==
  IF st.guarded THEN Ev("ERROR", st.name) ELSE Ev("Traceback", "APIError")

\* A free-text stage's client.messages.create: an exception ends the run with
\* exit code 1; a response is printed (by the stage in the multi-step scripts)
\* and returned (optimize_seo returns it wrapped in a dict).
CallFree ==
  /\ Running
  /\ pc = "stage"
  /\ sp = "call"
  /\ Stage.kind = "free"
  /\ calls' = [calls EXCEPT ![Stage.name] = @ + 1]
  /\ \E ok \in BOOLEAN :
       \E t \in FreeTexts :
         /\ ok => apiKey
         /\ ~ok => t = <<"a">>
         /\ IF ~ok
            THEN /\ err' = Append(err, CallFailure(Stage))
                 /\ raised' = raised \cup {Stage.name}
                 /\ Exit(1)
                 /\ UNCHANGED <<results, out, si>>
            ELSE /\ results' = Record(results, Stage.name,
                                      IF Stage.name = "optimize_seo"
                                      THEN DictResult(t) ELSE TextResult(t))
                 /\ out' = IF script \in MultiStep
                           THEN Append(out, EvText("result", t)) ELSE out
                 /\ GoToStage(si + 1)
                 /\ UNCHANGED <<err, exitCode, raised>>
  /\ UNCHANGED <<script, source, argvOk, apiKey, input, acquired, resp, parseText,
                 buffer, nfrags, started>>

\* A structured stage's client.messages.create: an exception ends the run;
\* otherwise the response text is in hand.
CallStructured ==
  /\ Running
  /\ pc = "stage"
  /\ sp = "call"
  /\ Stage.kind = "structured"
  /\ calls' = [calls EXCEPT ![Stage.name] = @ + 1]
  /\ \E ok \in BOOLEAN :
       \E r \in Responses :
         /\ ~ok => r = <<>>
         /\ IF ~ok
            THEN /\ err' = Append(err, CallFailure(Stage))
                 /\ raised' = raised \cup {Stage.name}
                 /\ Exit(1)
                 /\ UNCHANGED resp
            ELSE /\ resp' = r
                 /\ sp' = "parse"
                 /\ UNCHANGED <<err, pc, exitCode, raised>>
  /\ UNCHANGED <<script, source, argvOk, apiKey, si, input, acquired, parseText,
                 buffer, nfrags, results, started, out>>

\* The rest of a structured stage: the fenced text is extracted and handed to
\* json.loads; JSONDecodeError prints "Invalid JSON response" and the text that
\* was parsed and exits 1; any parsed value is printed and returned as it is.
ExtractAndParse ==
  /\ Running
  /\ pc = "stage"
  /\ sp = "parse"
  /\ parseText' = ExtractJson(resp)
  /\ LET loaded == JsonLoads(script, ExtractJson(resp))
     IN  IF ~loaded.ok
         THEN /\ err' = err \o <<Ev("ERROR: Invalid JSON response", Stage.name),
                                 EvText("Raw response", ExtractJson(resp))>>
              /\ Exit(1)
              /\ UNCHANGED <<results, out, si>>
         ELSE /\ results' = Record(results, Stage.name, JsonResult(loaded.value))
              /\ out' = Append(out, Ev("result", Stage.name))
              /\ GoToStage(si + 1)
              /\ UNCHANGED <<err, exitCode>>
  /\ UNCHANGED <<raised, script, source, argvOk, apiKey, input, acquired, resp, buffer, nfrags,
                 started, calls>>

\* A streamed stage opens client.messages.stream with an empty buffer.
OpenStream ==
  /\ Running
  /\ pc = "stage"
  /\ sp = "call"
  /\ Stage.kind = "streamed"
  /\ calls' = [calls EXCEPT ![Stage.name] = @ + 1]
  /\ buffer' = <<>>
  /\ nfrags' = 0
  /\ \E ok \in BOOLEAN :
       IF ~ok
       THEN /\ err' = Append(err, CallFailure(Stage))
            /\ raised' = raised \cup {Stage.name}
            /\ Exit(1)
       ELSE /\ sp' = "stream"
            /\ UNCHANGED <<err, pc, exitCode, raised>>
  /\ UNCHANGED <<script, source, argvOk, apiKey, si, input, acquired, resp, parseText,
                 results, started, out>>

\* The buffer replaced by the fragment instead of extended by it.
AccumulateLast(buf, f) == f

\* `response += text`: the fragment is appended to the buffer.
Accumulate(buf, f) == buf \o f

\* One pass of the loop over stream.text_stream: the fragment is printed and
\* appended to the buffer.
StreamFragment ==
  /\ Running
  /\ pc = "stage"
  /\ sp = "stream"
  /\ nfrags < MaxFrags
  /\ \E f \in Fragments :
       /\ out' = Append(out, EvText("fragment", f))
       /\ buffer' = Accumulate(buffer, f)
  /\ nfrags' = nfrags + 1
  /\ UNCHANGED <<raised, script, source, argvOk, apiKey, pc, si, sp, input, acquired, resp,
                 parseText, results, started, calls, err, exitCode>>

\* The fragment sequence ends: the buffer is the stage's return value.
StreamEnd ==
  /\ Running
  /\ pc = "stage"
  /\ sp = "stream"
  /\ results' = Record(results, Stage.name, TextResult(buffer))
  /\ out' = Append(out, Ev("newline", ""))
  /\ GoToStage(si + 1)
  /\ UNCHANGED <<raised, script, source, argvOk, apiKey, input, acquired, resp, parseText,
                 buffer, nfrags, started, calls, err, exitCode>>

\* The handler reporting the broken stream and returning what was received.
StreamErrorReturnsPartial ==
  /\ Running
  /\ pc = "stage"
  /\ sp = "stream"
  /\ err' = Append(err, CallFailure(Stage))
  /\ raised' = raised \cup {Stage.name}
  /\ results' = Record(results, Stage.name, TextResult(buffer))
  /\ GoToStage(si + 1)
  /\ UNCHANGED <<script, source, argvOk, apiKey, input, acquired, resp, parseText,
                 buffer, nfrags, started, calls, out, exitCode>>

\* The stream raises between fragments: ERROR on stderr and sys.exit(1); what
\* was received stays printed and is returned to nobody.
StreamError ==
  /\ Running
  /\ pc = "stage"
  /\ sp = "stream"
  /\ err' = Append(err, CallFailure(Stage))
  /\ raised' = raised \cup {Stage.name}
  /\ Exit(1)
  /\ UNCHANGED <<script, source, argvOk, apiKey, si, input, acquired, resp, parseText,
                 buffer, nfrags, results, started, calls, out>>

\* ---------------------------------------------------------- main's last lines
\* The fields main prints upper-cased after the completion banner, in order.
StatusFields(s) ==
  CASE s = "code_reviewer" -> <<"risk_level", "complexity">>
    [] s = "support_classifier" -> <<"category", "priority">>
    [] OTHER -> <<>>

RECURSIVE PrintStatus(_, _, _)
\* print(f"...{v[key].upper()}") for each key in turn, from the state
\* [out, exc]: the lines printed so far and the exception that stopped them.
PrintStatus(v, keys, acc) ==
  IF keys = <<>> \/ acc.exc # "" THEN acc
  ELSE LET got == Subscript(v, Head(keys))
           up == Upper(got.value)
       IN  IF ~got.ok THEN [acc EXCEPT !.exc = got.exc]
           ELSE IF ~up.ok THEN [acc EXCEPT !.exc = up.exc]
           ELSE PrintStatus(v, Tail(keys),
                            [acc EXCEPT !.out = Append(@, Ev(Head(keys), up.value))])

\* What main prints after the last stage, and the exception that ends it (""
\* when it runs to its end): the completion banner, then the status lines read
\* from the first stage's record. code_reviewer and support_classifier index the
\* record and upper-case the value, support_classifier then prints sentiment as
\* it is, competitor_analyzer uses .get with the default 'Unknown'; the
\* single-step scripts print the stage's text.
Closing(s, res) ==
  LET banner == <<Ev("COMPLETE", s)>>
      first == res[Stages(s)[1].name]
      st == PrintStatus(first.json, StatusFields(s), [out |-> banner, exc |-> ""])
  IN  CASE s = "code_reviewer" -> st
        [] s = "support_classifier" ->
             IF st.exc # "" THEN st
             ELSE LET sent == Subscript(first.json, "sentiment")
                  IN  IF sent.ok
                      THEN [st EXCEPT !.out = Append(@, Ev("sentiment", sent.value.val))]
                      ELSE [st EXCEPT !.exc = sent.exc]
        [] s = "competitor_analyzer" ->
             LET name == DictGet(first.json, "company_name", "Unknown")
             IN  IF name.ok
                 THEN [out |-> Append(banner, Ev("company_name", name.value.val)), exc |-> ""]
                 ELSE [out |-> banner, exc |-> name.exc]
        [] s = "content_pipeline" -> [out |-> banner, exc |-> ""]
        [] OTHER -> [out |-> <<EvText("result", first.text)>>, exc |-> ""]

\* main after the last stage: an exception in the status lines is uncaught
\* (traceback, exit code 1, after what was already printed); otherwise main
\* returns and the process ends with exit code 0.
Final ==
  /\ Running
  /\ pc = "final"
  /\ LET c == Closing(script, results)
     IN  /\ out' = out \o c.out
         /\ IF c.exc # ""
            THEN /\ err' = Append(err, Ev("Traceback", c.exc))
                 /\ Exit(1)
            ELSE /\ err' = err
                 /\ Exit(0)
  /\ UNCHANGED <<raised, script, source, argvOk, apiKey, si, input, acquired, resp, parseText,
                 buffer, nfrags, results, started, calls>>

Next ==
  \/ ParseArgs
  \/ CreateClient
  \/ ReadInput
  \/ FetchWebpage
  \/ GitDiff
  \/ LoadJson
  \/ StageBegin
  \/ CallFree
  \/ CallStructured
  \/ ExtractAndParse
  \/ OpenStream
  \/ StreamFragment
  \/ StreamEnd
  \/ StreamError
  \/ Final

Spec == Init /\ [][Next]_vars

\* ------------------------------------------- the extraction on every text
StructuredScripts == {"code_reviewer", "support_classifier", "competitor_analyzer"}

\* The tokens of the response texts ExtractSpec enumerates.
ExtractAlphabet == {"F", "J", "W", "Dfull"}

\* stdout when the structured (first) stage of script s has its response.
OutBeforeParse(s) ==
  IF s = "competitor_analyzer"
  THEN <<Ev("title", s), Ev("header", "fetch_webpage"), Ev("URL", "url"), Ev("fetched", ""),
         Ev("header", Stages(s)[1].name)>>
  ELSE <<Ev("title", s), Ev("input shown", s), Ev("header", Stages(s)[1].name)>>

\* A run whose structured stage has just received its response, the response
\* being any text over ExtractAlphabet of at most MaxLen tokens.
ExtractInit ==
  /\ script \in StructuredScripts
  /\ source = IF script = "competitor_analyzer" THEN "url" ELSE "file"
  /\ argvOk = TRUE
  /\ apiKey = TRUE
  /\ pc = "stage"
  /\ si = 1
  /\ sp = "parse"
  /\ input = <<"P">>
  /\ acquired = "ok"
  /\ resp \in SeqsUpTo(ExtractAlphabet, MaxLen)
  /\ parseText = <<>>
  /\ buffer = <<>>
  /\ nfrags = 0
  /\ results = [n \in StageNames(script) |-> NoResult]
  /\ started = <<Stages(script)[1].name>>
  /\ calls = [n \in StageNames(script) |-> IF n = Stages(script)[1].name THEN 1 ELSE 0]
  /\ raised = {}
  /\ out = OutBeforeParse(script)
  /\ err = <<>>
  /\ exitCode = -1

ExtractNext == ExtractAndParse

ExtractSpec == ExtractInit /\ [][ExtractNext]_vars

\* --------------------------------- the extraction on fenced valid records
\* The tokens of the prose around a fenced block.
ProseAlphabet == {"P", "W", "F", "J"}

\* Schema-valid records: the full record, and the one with a fence marker in
\* a string value.
ValidDocs == {"Dfull", "Dtick"}

\* The serialisation of record d in a fenced block, tagged or plain, between
\* prose before and after.
Embed(before, tagged, d, after) ==
  before \o (IF tagged THEN FENCE_JSON ELSE FENCE) \o Serialise(d) \o FENCE \o after

\* A run whose structured stage has just received a response that holds a
\* schema-valid record in a fenced block inside prose of at most MaxProse
\* tokens on either side.
RoundTripInit ==
  /\ script \in StructuredScripts
  /\ source = IF script = "competitor_analyzer" THEN "url" ELSE "file"
  /\ argvOk = TRUE
  /\ apiKey = TRUE
  /\ pc = "stage"
  /\ si = 1
  /\ sp = "parse"
  /\ input = <<"P">>
  /\ acquired = "ok"
  /\ \E before \in SeqsUpTo(ProseAlphabet, MaxProse) :
       \E after \in SeqsUpTo(ProseAlphabet, MaxProse) :
         \E tagged \in BOOLEAN :
           \E d \in ValidDocs : resp = Embed(before, tagged, d, after)
  /\ parseText = <<>>
  /\ buffer = <<>>
  /\ nfrags = 0
  /\ results = [n \in StageNames(script) |-> NoResult]
  /\ started = <<Stages(script)[1].name>>
  /\ calls = [n \in StageNames(script) |-> IF n = Stages(script)[1].name THEN 1 ELSE 0]
  /\ raised = {}
  /\ out = OutBeforeParse(script)
  /\ err = <<>>
  /\ exitCode = -1

RoundTripSpec == RoundTripInit /\ [][ExtractNext]_vars

\* ================================================================== claims
FirstName == Stages(script)[1].name
StructuredFirst == Stages(script)[1].kind = "structured"

\* The structured stage received a response and has been through json.loads.
ParseDone ==
  /\ StructuredFirst
  /\ calls[FirstName] = 1
  /\ FirstName \notin raised
  /\ ~(pc = "stage" /\ si = 1)

\* What json.loads made of the response of the structured stage.
Parsed == JsonLoads(script, ExtractJson(resp))

ParseFailed == ParseDone /\ ~Parsed.ok

\* Stage i failed: its remote call raised, or its response did not parse.
FailedAt(i) == Stages(script)[i].name \in raised \/ (i = 1 /\ ParseFailed)

\* Stage j left no trace: not entered, no header, no remote call, no result.
NotExecuted(j) ==
  LET n == Stages(script)[j].name
  IN  /\ \A k \in 1..Len(started) : started[k] # n
      /\ \A k \in 1..Len(out) : out[k] # Ev("header", n)
      /\ calls[n] = 0
      /\ results[n].kind = "none"

\* C1: in the multi-step scripts, once a stage's remote call has raised or the
\* structured stage's response has failed to parse, the run has ended at that
\* stage with exit code 1 and no later stage has printed its header, issued a
\* remote call or produced a result.
C1_FailFast ==
  script \in MultiStep =>
    \A i \in 1..NStages(script) :
      FailedAt(i) =>
        /\ pc = "done"
        /\ exitCode = 1
        /\ si = i
        /\ \A j \in (i + 1)..NStages(script) : NotExecuted(j)

\* C1 witness: the code reviewer's first response did not parse and the run is
\* over.
C1_Witness == script = "code_reviewer" /\ ParseFailed /\ pc = "done" /\ resp = <<"P">>

\* The parsed record lacks a field the pipeline reads.
LacksRequired(v) ==
  /\ v.kind = "object"
  /\ ~({FieldA(script), FieldB(script)} \cup OtherFields(script) \subseteq DOMAIN v.fields)

\* C2: a structured stage whose response parses but lacks a required field
\* fails at that stage (exit code 1, no result returned, no later stage run, no
\* default printed in the field's place).
C2_MissingFieldIsSchemaViolation ==
  (ParseDone /\ Parsed.ok /\ LacksRequired(Parsed.value)) =>
    /\ results[FirstName].kind = "none"
    /\ pc = "done"
    /\ exitCode = 1
    /\ si = 1
    /\ \A j \in 2..NStages(script) : NotExecuted(j)
    /\ \A k \in 1..Len(out) : out[k] # Ev("company_name", "Unknown")

\* C3: in the code reviewer, a first response that is a record without
\* complexity ends the run at the first stage: no later stage executes, and
\* when the run has ended it has exit code 1 and no stage result is recorded.
C3_OmittedComplexityFailsAtFirstStage ==
  (/\ script = "code_reviewer"
   /\ ParseDone
   /\ Parsed.ok
   /\ Parsed.value.kind = "object"
   /\ "complexity" \notin DOMAIN Parsed.value.fields) =>
    /\ \A j \in 2..NStages(script) : NotExecuted(j)
    /\ pc = "done" =>
         /\ exitCode = 1
         /\ si = 1
         /\ \A n \in StageNames(script) : results[n].kind = "none"

\* The parsed value is not an object, or its first field is not a string, or
\* (code reviewer) not one of low, medium, high.
WrongTyped(v) ==
  \/ v.kind \in {"list", "string"}
  \/ /\ v.kind = "object"
     /\ FieldA(script) \in DOMAIN v.fields
     /\ \/ v.fields[FieldA(script)].type # "string"
        \/ /\ script = "code_reviewer"
           /\ v.fields[FieldA(script)].val \notin {"low", "medium", "high"}

\* C4: a structured stage whose response parses but is of the wrong type fails
\* at that stage with exit code 1 and produces no result.
C4_WrongTypeIsSchemaViolation ==
  (ParseDone /\ Parsed.ok /\ WrongTyped(Parsed.value)) =>
    /\ results[FirstName].kind = "none"
    /\ pc = "done"
    /\ exitCode = 1
    /\ si = 1

\* C5: a finished run of a multi-step script whose input was acquired, whose
\* remote calls all succeeded and whose structured response parsed has run
\* every stage exactly once in main's order, recorded every result, printed
\* the completion banner and ended with exit code 0.
C5_AllStagesOnceThenSucceeded ==
  (/\ script \in MultiStep
   /\ pc = "done"
   /\ argvOk
   /\ apiKey
   /\ acquired = "ok"
   /\ raised = {}
   /\ ~ParseFailed) =>
    /\ exitCode = 0
    /\ Len(started) = NStages(script)
    /\ \A i \in 1..Len(started) : started[i] = Stages(script)[i].name
    /\ \A n \in StageNames(script) : calls[n] = 1 /\ results[n].kind # "none"
    /\ \E k \in 1..Len(out) : out[k] = Ev("COMPLETE", script)

AcquisitionFailed == acquired \in {"notfound", "exception", "empty", "fetch_error"}

C7_FirstStageInputNonEmpty ==
  source \in {"file", "-", "url", "git"} =>
    /\ started # <<>> => ~Blank(input)
    /\ acquired = "empty" => exitCode # 0

\* C7 amended: where the input is read from a file, stdin or git (read_diff,
\* read_email, dev-code-review) a stage is entered only with input that has a
\* character that is not whitespace, and input without one ends the run before
\* any stage, with exit code 1 in read_diff and read_email and with exit code 0
\* in dev-code-review; fetch_webpage does not test its text, and a page that
\* yields no text reaches the first stage as the empty text.
C7_EmptyInputStopsFileAndGitOnly ==
  /\ source \in {"file", "-", "git"} =>
       /\ started # <<>> => ~Blank(input)
       /\ acquired = "empty" =>
            /\ pc = "done"
            /\ started = <<>>
            /\ exitCode = IF source = "git" THEN 0 ELSE 1
  /\ (source = "url" /\ acquired = "empty") =>
       /\ input = <<>>
       /\ pc = "done" => started # <<>>

\* C7 witness: the competitor analyzer has entered its first stage with the
\* empty text of a page that held nothing but whitespace.
C7_Witness ==
  /\ source = "url"
  /\ acquired = "empty"
  /\ started = <<"extract_key_info">>
  /\ input = <<>>

\* C8: every stage's remote call is issued at most once; a stage whose remote
\* call raised has ended the run with a non-zero exit code and a message on
\* stderr, has no result (not even the fragments received before the error),
\* and no later stage was entered.
C8_NoRetryNoFallback ==
  \A i \in 1..NStages(script) :
    LET n == Stages(script)[i].name
    IN  /\ calls[n] <= 1
        /\ n \in raised =>
             /\ pc = "done"
             /\ exitCode \notin {-1, 0}
             /\ err # <<>>
             /\ err[Len(err)].ev \in {"ERROR", "Traceback"}
             /\ results[n].kind = "none"
             /\ \A j \in (i + 1)..NStages(script) : NotExecuted(j)

\* C8 witness: the content pipeline's streamed draft broke after one fragment;
\* the outline before it is recorded, the draft is not.
C8_Witness ==
  /\ script = "content_pipeline"
  /\ "write_draft" \in raised
  /\ nfrags = 1
  /\ buffer # <<>>
  /\ results["generate_outline"].kind = "text"
  /\ exitCode = 1

\* ------------------------------------------------- claims on the extraction
\* Index of the first fence marker of t at or after i, 0 if there is none.
FenceFrom(t, i) ==
  LET I == {k \in i..Len(t) : t[k] = "F"}
  IN  IF I = {} THEN 0 ELSE CHOOSE k \in I : \A m \in I : k <= m

\* Index of the first fence marker of t that carries the json tag, 0 if none.
TaggedFence(t) ==
  LET I == {k \in 1..(Len(t) - 1) : t[k] = "F" /\ t[k + 1] = "J"}
  IN  IF I = {} THEN 0 ELSE CHOOSE k \in I : \A m \in I : k <= m

\* The first fenced block of t: from its first marker (and the tag, if it
\* carries one) to the next marker.
BlockStart(t) ==
  LET o == FenceFrom(t, 1)
  IN  IF o < Len(t) /\ t[o + 1] = "J" THEN o + 2 ELSE o + 1

BlockClose(t) == IF FenceFrom(t, 1) = 0 THEN 0 ELSE FenceFrom(t, BlockStart(t))

HasFencedBlock(t) == BlockClose(t) # 0

\* The parser's text as C9 states it.
ClaimedExtract(t) ==
  IF HasFencedBlock(t)
  THEN Strip(SubSeq(t, BlockStart(t), BlockClose(t) - 1))
  ELSE Strip(t)

\* Where the parsed text starts: after the first tagged marker if there is
\* one, else after the first marker; 0 without any marker.
ParsedStart(t) ==
  IF TaggedFence(t) # 0 THEN TaggedFence(t) + 2
  ELSE IF FenceFrom(t, 1) # 0 THEN FenceFrom(t, 1) + 1 ELSE 0

\* The marker that ends the parsed text, 0 if none follows.
ParsedClose(t) == IF ParsedStart(t) = 0 THEN 0 ELSE FenceFrom(t, ParsedStart(t))

ParsedEnd(t) == IF ParsedClose(t) = 0 THEN Len(t) ELSE ParsedClose(t) - 1

\* C9 as stated: the text handed to json.loads is the stripped content of the
\* fenced block if the response has one (an opening marker, tagged or not, and
\* a later closing marker), else the stripped response.
C9_ExtractAsClaimed == ParseDone => parseText = ClaimedExtract(resp)

\* C9 amended: with a tagged marker in the response the parser gets the text
\* after the first tagged marker, else with any marker the text after the first
\* marker, in both cases up to the next marker or, if none follows, to the end
\* of the response, stripped; without a marker it gets the response unchanged.
C9_ExtractAmended ==
  ParseDone =>
    parseText = IF ParsedStart(resp) = 0 THEN resp
                ELSE Strip(SubSeq(resp, ParsedStart(resp), ParsedEnd(resp)))

\* C9 witness: a padded document in a tagged fence was extracted and parsed.
C9_Witness ==
  /\ ParseDone
  /\ resp = <<"W", "F", "J", "W", "Dfull", "F">>
  /\ parseText = <<"Dfull">>
  /\ results[FirstName].kind = "json"

NumFences(t) == Cardinality({k \in 1..Len(t) : t[k] = "F"})

\* Two fenced blocks or more: four markers at least.
MultiBlock(t) == NumFences(t) >= 4

\* C10 as stated: of several fenced blocks the first one's content is parsed.
C10_FirstBlockParsed ==
  (ParseDone /\ MultiBlock(resp)) =>
    parseText = Strip(SubSeq(resp, BlockStart(resp), BlockClose(resp) - 1))

\* C10 amended: of several fenced blocks, the parsed text starts after the
\* first tagged marker if the response has one (whatever precedes it), else
\* after the first marker, and ends before the next marker (at the end of the
\* response if none follows); whatever follows that marker has no part in it
\* beyond deciding where the first tagged marker is: any other text after the
\* marker that leaves the first tagged marker in place gives the same parsed
\* text.
C10_TaggedBlockFirstAndTailIgnored ==
  (ParseDone /\ MultiBlock(resp)) =>
    /\ parseText = Strip(SubSeq(resp, ParsedStart(resp), ParsedEnd(resp)))
    /\ ParsedClose(resp) # 0 =>
         \A tail \in SeqsUpTo(ExtractAlphabet, 2) :
           LET other == SubSeq(resp, 1, ParsedClose(resp)) \o tail
           IN  TaggedFence(other) = TaggedFence(resp) => ExtractJson(other) = parseText

\* C10 witness: a plain block holding a document and, after it, an empty
\* tagged block; the empty text was parsed and the run ended with exit code 1.
C10_Witness ==
  /\ ParseDone
  /\ resp = <<"F", "Dfull", "F", "F", "J", "F">>
  /\ parseText = <<>>
  /\ exitCode = 1
\* --------------------------------------------- claims on the round trip
\* The record a response of RoundTripSpec holds (its prose holds none).
Embedded(t) == IF \E i \in 1..Len(t) : t[i] = "Dt1" THEN "Dtick" ELSE "Dfull"

\* C11: a schema-valid record serialised in a fenced block inside any prose
\* comes back from extraction and json.loads as that record, also when the
\* prose or a string value of the record holds a fence marker.
C11_RoundTrip ==
  ParseDone =>
    /\ results[FirstName].kind = "json"
    /\ results[FirstName].json = JsonValue(script, Embedded(resp))

\* C12: extraction is idempotent: the text handed to json.loads holds no fence
\* marker, and extracting from it once more gives that text again.
C12_Idempotent ==
  ParseDone =>
    /\ ~Contains(parseText, FENCE)
    /\ ExtractJson(parseText) = parseText

\* C12 witness: a response with a tagged block and two more markers after it
\* was cut down to the document.
C12_Witness ==
  /\ ParseDone
  /\ resp = <<"F", "J", "Dfull", "W", "F", "F">>
  /\ parseText = <<"Dfull">>
  /\ ExtractJson(parseText) = <<"Dfull">>

\* C13: when the structured stage's response did not parse, stderr holds the
\* response text in full as the remote call returned it, markers and
\* surrounding prose included.
C13_RawResponseInError ==
  ParseFailed =>
    \E k \in 1..Len(err) : err[k].ev = "Raw response" /\ err[k].text = resp

\* --------------------------------------------------- claims on the process
\* Every stage of the script has returned its result.
AllStagesReturned == \A n \in StageNames(script) : results[n].kind # "none"

\* Some stage failed: its remote call raised or its response did not parse.
SomeStageFailed == \E i \in 1..NStages(script) : FailedAt(i)

\* C14: a finished run has exit code 0 exactly when every stage returned its
\* result; and a run that ended on a stage failure, on a missing command-line
\* argument or on the missing credential has a non-zero exit code and a
\* message on stderr.
C14_ExitCodeAndStderr ==
  pc = "done" =>
    /\ exitCode = 0 <=> AllStagesReturned
    /\ (SomeStageFailed \/ ~argvOk \/ (~apiKey /\ ~AllStagesReturned)) =>
         /\ exitCode \notin {-1, 0}
         /\ err # <<>>

\* C15: without the credential no stage is ever entered, no remote call is
\* issued and no input is read from a file, stdin, a URL or git.
C15_NoKeyNothingStarts ==
  ~apiKey =>
    /\ started = <<>>
    /\ \A n \in StageNames(script) : calls[n] = 0
    /\ source # "argv" => acquired = "no"

\* ------------------------------------------------- claims on the streaming
RECURSIVE ConcatFragments(_, _, _)
\* The texts of the fragment lines among o[i..j], concatenated in order.
ConcatFragments(o, i, j) ==
  IF i > j THEN <<>>
  ELSE (IF o[i].ev = "fragment" THEN o[i].text ELSE <<>>) \o ConcatFragments(o, i + 1, j)

\* Index in stdout of the header of stage n, 0 if it has not been printed.
HeaderAt(n) ==
  LET I == {k \in 1..Len(out) : out[k].ev = "header" /\ out[k].arg = n}
  IN  IF I = {} THEN 0 ELSE CHOOSE k \in I : TRUE

\* Index of the first header after position h, Len(out) + 1 if there is none.
NextHeaderAfter(h) ==
  LET I == {k \in (h + 1)..Len(out) : out[k].ev = "header"}
  IN  IF I = {} THEN Len(out) + 1 ELSE CHOOSE k \in I : \A m \in I : k <= m

\* The fragments stage n has received so far, in arrival order, concatenated.
Received(n) ==
  IF HeaderAt(n) = 0 THEN <<>>
  ELSE ConcatFragments(out, HeaderAt(n), NextHeaderAfter(HeaderAt(n)) - 1)

\* C16: while a streamed stage receives fragments its buffer is the
\* concatenation of the fragments received so far, it has no result yet and
\* no later stage has been entered; once it has returned, its result is the
\* concatenation of all its fragments in arrival order; and the stage after
\* it is entered only when that result exists.
C16_StreamedResultIsConcatenation ==
  \A i \in 1..NStages(script) :
    LET n == Stages(script)[i].name
    IN  Stages(script)[i].kind = "streamed" =>
          /\ (pc = "stage" /\ si = i /\ sp = "stream") =>
               /\ buffer = Received(n)
               /\ results[n].kind = "none"
               /\ \A j \in (i + 1)..NStages(script) : NotExecuted(j)
          /\ results[n].kind # "none" =>
               /\ results[n].kind = "text"
               /\ results[n].text = Received(n)
          /\ (i < NStages(script) /\ ~NotExecuted(i + 1)) => results[n].kind = "text"

\* C16 witness: the competitor analyzer's comparison was returned as the two
\* fragments a, b in that order, and the SWOT stage after it has received its
\* first fragment.
C16_Witness ==
  /\ script = "competitor_analyzer"
  /\ results["compare_products"].text = <<"a", "b">>
  /\ pc = "stage"
  /\ Stage.name = "generate_swot"
  /\ sp = "stream"
  /\ buffer = <<"b">>

\* ------------------------------------------------ claims on main's closing
\* The completion banner is on stdout.
BannerPrinted == \E k \in 1..Len(out) : out[k].ev = "COMPLETE"

\* C17: a run that ended with a non-zero exit code, from a stage or from
\* anything after the last stage, has not printed the completion banner.
C17_BannerOnlyOnSuccess == (pc = "done" /\ exitCode # 0) => ~BannerPrinted

\* C18: a stage's result, once bound, is never bound again nor changed by a
\* later stage, and the record main reads for its status lines is the value
\* json.loads returned in the structured stage.
C18_ResultsWriteOnce ==
  /\ [][\A n \in StageNames(script) :
          results[n].kind # "none" => results'[n] = results[n]]_vars
  /\ [](StructuredFirst /\ results[FirstName].kind # "none" =>
          /\ results[FirstName].kind = "json"
          /\ results[FirstName].json = Parsed.value)

\* C18 witness: a code review that ran to exit code 0 with every result
\* bound, the first one being the record of the padded response.
C18_Witness ==
  /\ script = "code_reviewer"
  /\ resp = <<"W", "Dfull", "W">>
  /\ AllStagesReturned
  /\ results["analyze_diff"].json = JsonValue(script, "Dfull")
  /\ exitCode = 0

\* Index in stdout of the completion banner, 0 if it has not been printed.
BannerAt ==
  LET I == {k \in 1..Len(out) : out[k].ev = "COMPLETE"}
  IN  IF I = {} THEN 0 ELSE CHOOSE k \in I : TRUE

\* The field values of the records in upper case.
InCapitals(w) ==
  CASE w = "low" -> "LOW"
    [] w = "bug" -> "BUG"
    [] w = "high" -> "HIGH"
    [] w = "extreme" -> "EXTREME"
    [] OTHER -> "?"

\* C19: a code review (support classification) that ended with exit code 0
\* has printed, right after the completion banner, the risk_level and the
\* complexity (the category and the priority) of the record parsed from the
\* first stage's response, in upper case: LOW and LOW when both are low,
\* whatever the later stages returned.
C19_StatusFromFirstRecord ==
  (script \in {"code_reviewer", "support_classifier"} /\ pc = "done" /\ exitCode = 0) =>
    /\ BannerAt # 0
    /\ Len(out) >= BannerAt + 2
    /\ out[BannerAt + 1].ev = FieldA(script)
    /\ out[BannerAt + 1].arg = InCapitals(Parsed.value.fields[FieldA(script)].val)
    /\ out[BannerAt + 2].ev = FieldB(script)
    /\ out[BannerAt + 2].arg = InCapitals(Parsed.value.fields[FieldB(script)].val)
    /\ (script = "code_reviewer" /\ Parsed.value = JsonValue(script, "Dfull")) =>
         out[BannerAt + 1].arg = "LOW" /\ out[BannerAt + 2].arg = "LOW"

\* C19 witness: a code review whose record has both fields low and whose
\* later stages returned different texts has printed LOW and LOW.
C19_Witness ==
  /\ script = "code_reviewer"
  /\ exitCode = 0
  /\ Parsed.value = JsonValue(script, "Dfull")
  /\ results["review_bugs"].text = <<"a">>
  /\ results["generate_summary"].text = <<"b">>
  /\ out[Len(out) - 1] = Ev("risk_level", "LOW")
  /\ out[Len(out)] = Ev("complexity", "LOW")

\* ------------------------------------------- claims on the unclosed fence
\* The response holds one fence marker, tagged or not, and none after it.
Unclosed(t) == NumFences(t) = 1

\* C21 as stated: a response whose opening marker is never closed is handled
\* as a response without a fence: the stripped response goes to json.loads.
C21_UnclosedIsNoFence == (ParseDone /\ Unclosed(resp)) => parseText = Strip(resp)

\* C21 amended: of a response whose opening marker is never closed, the text
\* after the marker (and after its json tag, if it carries one) up to the end
\* of the response goes to json.loads, stripped; what stands before the
\* marker, and the marker, are dropped, so that a document after an unclosed
\* marker is parsed and returned.
C21_UnclosedCutAfterMarker ==
  (ParseDone /\ Unclosed(resp)) =>
    LET o == FenceFrom(resp, 1)
        from == IF o < Len(resp) /\ resp[o + 1] = "J" THEN o + 2 ELSE o + 1
        rest == Strip(SubSeq(resp, from, Len(resp)))
    IN  /\ parseText = rest
        /\ ~Contains(parseText, FENCE)
        /\ rest = <<"Dfull">> => results[FirstName].kind = "json"
        /\ rest # <<"Dfull">> => exitCode = 1

\* C21 witness: a document after an unclosed tagged marker, with whitespace
\* around both, was parsed and returned.
C21_Witness ==
  /\ ParseDone
  /\ resp = <<"W", "F", "J", "W", "Dfull", "W">>
  /\ parseText = <<"Dfull">>
  /\ results[FirstName].kind = "json"

\* ------------------------------------------ claims on the interrupted stream
\* The number of fragment lines among o[i..j].
RECURSIVE CountFragments(_, _, _)
CountFragments(o, i, j) ==
  IF i > j THEN 0
  ELSE (IF o[i].ev = "fragment" THEN 1 ELSE 0) + CountFragments(o, i + 1, j)

\* C22: a streamed stage whose fragment sequence broke off after k >= 0
\* fragments has ended the run with exit code 1 and its error line on stderr;
\* it has returned no result, no later stage was entered or called, and the k
\* fragments received stand on stdout, being what the buffer held.
C22_BrokenStreamReturnsNothing ==
  \A i \in 1..NStages(script) :
    LET n == Stages(script)[i].name
    IN  (Stages(script)[i].kind = "streamed" /\ n \in raised) =>
          /\ pc = "done"
          /\ exitCode = 1
          /\ err # <<>>
          /\ err[Len(err)] = Ev("ERROR", n)
          /\ results[n].kind = "none"
          /\ \A j \in (i + 1)..NStages(script) : NotExecuted(j)
          /\ Received(n) = buffer
          /\ CountFragments(out, HeaderAt(n), Len(out)) = nfrags

\* C22 witness: the support classifier's draft broke off after the fragments
\* a and b; both are on stdout, the classification is recorded, the draft is
\* not, and suggest_actions was never entered.
C22_Witness ==
  /\ script = "support_classifier"
  /\ "draft_response" \in raised
  /\ nfrags = 2
  /\ buffer = <<"a", "b">>
  /\ out[Len(out) - 1] = EvText("fragment", <<"a">>)
  /\ out[Len(out)] = EvText("fragment", <<"b">>)
  /\ results["classify_email"].kind = "json"
  /\ results["draft_response"].kind = "none"
  /\ NotExecuted(3)
  /\ exitCode = 1
====
